---- MODULE Spec2Model ----
(***************************************************************************)
(* Model of the request pipeline of package firebase (firebase.go):        *)
(* DoRequest and its call-throughs Get, Set, Push, Update, Remove,         *)
(* SetRules, SetRulesJSON and GetRulesJSON.                                *)
(*                                                                         *)
(* A JSON text is a sequence of lexical tokens.  Each token stands for the *)
(* bytes of one lexeme:                                                    *)
(*     "{"  "}"  ":"  ","   the structural characters                      *)
(*     " "                  one whitespace byte                            *)
(*     "n"                  the string literal "name"                      *)
(*     "s"                  the string literal "abc"                       *)
(*     "t"                  the literal true                               *)
(* Every invocation (an element of Procs) has its own locals; the steps of *)
(* different invocations interleave.                                       *)
(***************************************************************************)
EXTENDS Integers, Sequences, FiniteSets, TLC

Procs == {"p1", "p2"}

\* Every text of up to MaxBodyLen tokens is a response body and a rules buffer.
MaxBodyLen == 1

Tokens == {"{", "}", ":", ",", " ", "n", "s", "t"}

AllBodies(n) == UNION {[1..k -> Tokens] : k \in 0..n}

\* Longer texts: objects with members, surrounding whitespace, trailing bytes.
SampleBodies ==
    { <<"{", "n", ":", "s", "}">>,
      <<"{", "n", ":", "t", "}">>,
      <<"{", "s", ":", "s", "}">>,
      <<"{", "n", ":", "s", ",", "s", ":", "t", "}">>,
      <<"{", "s", ":", "t", ",", "n", ":", "s", "}">>,
      <<"{", "n", ":", "s", ",", "n", ":", "t", "}">>,
      <<"{", "n", ":", "{", "}", ",", "s", ":", "s", "}">>,
      <<" ", "{", " ", "n", " ", ":", " ", "s", " ", "}", " ">>,
      <<"{", "n", ":", "s", "}", "}">>,
      <<"{", "n", ":", "s", "}", " ", "t">>,
      <<"{", "n", ":", "s", ",", "}">>,
      <<"{", "n", ":", "s">>,
      <<"{", "n", ":", "}">>,
      <<"{", "}", " ">>,
      <<" ", "{", "}">>,
      <<"{", " ", "}">>,
      <<"{", "}", "}">>,
      <<"{", "}">>,
      <<" ", "s">>,
      <<"s", " ">>,
      <<"t", "}">>,
      <<"s", "s">>,
      <<"{", "n", ":">> }

Bodies == AllBodies(MaxBodyLen) \cup SampleBodies

\* The texts used when two invocations interleave.
ConcBodies ==
    { <<"{", "n", ":", "s", "}">>,
      <<"{", "n", ":", "s", ",", "n", ":", "t", "}">>,
      <<"{", "n", ":">> }

StatusCodes == {199, 200, 299, 300}
ConcStatusCodes == {200, 404}

VARIABLES
    pc,         \* position of each invocation
    op,         \* exported function that was called
    method,     \* DoRequest's method argument
    path,       \* sub-location of r the request goes to
    buf,        \* SetRulesJSON's buf argument
    v,          \* DoRequest's v argument
    d0,         \* what d pointed to when DoRequest was called
    d,          \* what d points to now
    body,       \* DoRequest's local body (the marshalled v)
    build,      \* outcome of r.clientAndRequest
    sent,       \* number of client.Do calls made
    transport,  \* outcome of client.Do
    res,        \* the response client.Do returned
    closed,     \* number of res.Body.Close calls made
    decodes,    \* number of dec.Decode(d) calls made on the response body
    err,        \* the error DoRequest returned
    retErr,     \* the error the exported function returned
    retName,    \* the string Push returned
    retBytes    \* the bytes GetRulesJSON returned

vars == <<pc, op, method, path, buf, v, d0, d, body, build, sent, transport,
          res, closed, decodes, err, retErr, retName, retBytes>>

----------------------------------------------------------------------------
(* Values *)

NoErr        == "nil"
MarshalErr   == "could not marshal json"
TransportErr == "could not execute request"
UnmarshalErr == "could not unmarshal json"
BuildErr     == "clientAndRequest error"
ServerErr    == "server error"

RulesPath == "/.settings/rules"

\* v: nil, a value json.Marshal accepts, a value it rejects (a channel, a func).
NilValue  == [kind |-> "nil",   marshalable |-> TRUE,  json |-> <<>>]
GoodValue == [kind |-> "value", marshalable |-> TRUE,
              json |-> <<"{", "n", ":", "t", "}">>]
BadValue  == [kind |-> "value", marshalable |-> FALSE, json |-> <<>>]

\* d: nil, a pointer to a struct of string fields, a pointer to a
\* json.RawMessage, a pointer to an interface{}.
NilDest       == [kind |-> "nil"]
StructDest(f) == [kind |-> "struct", val |-> f]
RawDest(b)    == [kind |-> "raw", val |-> b]
AnyDest(b)    == [kind |-> "any", val |-> b]

\* Push's res: struct { Name string `json:"name"` }, zero valued.
PushDest == StructDest([n |-> ""])

\* Destinations a caller hands to Get: a struct with the fields "name" and
\* "abc", zero valued or holding earlier data.
GetDests == { StructDest([n |-> "", s |-> ""]),
              StructDest([n |-> "old", s |-> "old"]) }

NoResponse == [status |-> 0, body |-> <<>>]

\* DoRequest's body reader: nil, or a reader over the marshalled bytes.
NoBody        == [present |-> FALSE, bytes |-> <<>>]
BodyReader(b) == [present |-> TRUE, bytes |-> b]

\* What callers pass as v.
Values == {NilValue, GoodValue, BadValue}

----------------------------------------------------------------------------
(* encoding/json, as far as DoRequest and SetRulesJSON use it *)

IsString(c)  == c \in {"n", "s"}
IsLiteral(c) == c \in {"n", "s", "t"}

\* The Go string a string literal decodes to.
StrVal(c) == IF c = "n" THEN "name" ELSE "abc"

RECURSIVE SkipSpace(_, _)
\* Index of the first non-whitespace token of b at or after i.
SkipSpace(b, i) ==
    IF i <= Len(b) /\ b[i] = " " THEN SkipSpace(b, i + 1) ELSE i

RECURSIVE ScanValue(_, _)
RECURSIVE ScanMembers(_, _)
\* The scanner on the value that starts at b[i]: the index just past the
\* value, or 0 when the text is malformed or ends inside the value.
ScanValue(b, i) ==
    IF i > Len(b) THEN 0
    ELSE IF IsLiteral(b[i]) THEN i + 1
    ELSE IF b[i] = "{"
         THEN LET j == SkipSpace(b, i + 1)
              IN  IF j <= Len(b) /\ b[j] = "}" THEN j + 1
                  ELSE ScanMembers(b, j)
    ELSE 0

\* The members of an object, b[i] being where a key is expected.
ScanMembers(b, i) ==
    IF i > Len(b) \/ ~IsString(b[i]) THEN 0
    ELSE LET c == SkipSpace(b, i + 1)
         IN  IF c > Len(b) \/ b[c] # ":" THEN 0
             ELSE LET e == ScanValue(b, SkipSpace(b, c + 1))
                      k == SkipSpace(b, e)
                  IN  IF e = 0 \/ k > Len(b) THEN 0
                      ELSE IF b[k] = "}" THEN k + 1
                      ELSE IF b[k] = "," THEN ScanMembers(b, SkipSpace(b, k + 1))
                      ELSE 0

Strip(b) == SelectSeq(b, LAMBDA c : c # " ")

RECURSIVE StoreMembers(_, _, _, _)
\* Unmarshal of the members of object t (no whitespace) into the struct
\* fields f, t[i] being a key or the closing brace.  A member whose key names
\* a field is stored when its value is a string; otherwise the type error is
\* saved (bad) and decoding goes on with the next member.
StoreMembers(t, i, f, bad) ==
    IF t[i] = "}" THEN [val |-> f, bad |-> bad]
    ELSE LET key     == t[i]
             e       == ScanValue(t, i + 2)
             isField == key \in DOMAIN f
             f2      == IF isField /\ IsString(t[i + 2])
                        THEN [f EXCEPT ![key] = StrVal(t[i + 2])]
                        ELSE f
             bad2    == bad \/ (isField /\ ~IsString(t[i + 2]))
         IN  StoreMembers(t, IF t[e] = "," THEN e + 1 ELSE e, f2, bad2)

\* Unmarshal of one complete JSON value, text, into dst.
Unmarshal(text, dst) ==
    CASE dst.kind = "raw" -> [d |-> RawDest(text), failed |-> FALSE]
      [] dst.kind = "any" -> [d |-> AnyDest(Strip(text)), failed |-> FALSE]
      [] dst.kind = "struct" ->
            IF text[1] # "{" THEN [d |-> dst, failed |-> TRUE]
            ELSE LET r == StoreMembers(Strip(text), 2, dst.val, FALSE)
                 IN  [d |-> StructDest(r.val), failed |-> r.bad]

\* json.NewDecoder(b).Decode(dst): reads the first JSON value of b, whatever
\* follows it, and unmarshals it.  A text that does not start with a
\* complete value fails before anything is stored.
Decode(b, dst) ==
    LET start == SkipSpace(b, 1)
        end   == ScanValue(b, start)
    IN  IF end = 0 THEN [d |-> dst, failed |-> TRUE]
        ELSE Unmarshal(SubSeq(b, start, end - 1), dst)

\* json.Marshal(x)
Marshal(x) == [buf |-> x.json, failed |-> ~x.marshalable]

\* checkServerError(res): an error for every status outside 200..299.
checkServerError(r) ==
    IF r.status < 200 \/ r.status > 299 THEN ServerErr ELSE NoErr

----------------------------------------------------------------------------
(* Initial state: no invocation has started *)

Init ==
    /\ pc        = [p \in Procs |-> "idle"]
    /\ op        = [p \in Procs |-> "none"]
    /\ method    = [p \in Procs |-> ""]
    /\ path      = [p \in Procs |-> ""]
    /\ buf       = [p \in Procs |-> <<>>]
    /\ v         = [p \in Procs |-> NilValue]
    /\ d0        = [p \in Procs |-> NilDest]
    /\ d         = [p \in Procs |-> NilDest]
    /\ body      = [p \in Procs |-> NoBody]
    /\ build     = [p \in Procs |-> "pending"]
    /\ sent      = [p \in Procs |-> 0]
    /\ transport = [p \in Procs |-> "pending"]
    /\ res       = [p \in Procs |-> NoResponse]
    /\ closed    = [p \in Procs |-> 0]
    /\ decodes   = [p \in Procs |-> 0]
    /\ err       = [p \in Procs |-> NoErr]
    /\ retErr    = [p \in Procs |-> NoErr]
    /\ retName   = [p \in Procs |-> ""]
    /\ retBytes  = [p \in Procs |-> <<>>]

----------------------------------------------------------------------------
(* The exported functions: each enters DoRequest with fixed arguments *)

\* Invocation p of exported function o calls DoRequest(m, r.Ref(pth), x, dst).
CallDoRequest(p, o, m, pth, x, dst) ==
    /\ pc[p] = "idle"
    /\ pc'     = [pc EXCEPT ![p] = "marshal"]
    /\ op'     = [op EXCEPT ![p] = o]
    /\ method' = [method EXCEPT ![p] = m]
    /\ path'   = [path EXCEPT ![p] = pth]
    /\ v'      = [v EXCEPT ![p] = x]
    /\ d0'     = [d0 EXCEPT ![p] = dst]
    /\ d'      = [d EXCEPT ![p] = dst]
    /\ UNCHANGED <<body, build, sent, transport, res, closed, decodes, err,
                   retErr, retName, retBytes>>

Get(p) ==
    /\ \E dst \in GetDests : CallDoRequest(p, "Get", "GET", "", NilValue, dst)
    /\ UNCHANGED buf

Set(p) ==
    /\ \E x \in Values : CallDoRequest(p, "Set", "PUT", "", x, NilDest)
    /\ UNCHANGED buf

Push(p) ==
    /\ \E x \in Values : CallDoRequest(p, "Push", "POST", "", x, PushDest)
    /\ UNCHANGED buf

Update(p) ==
    /\ \E x \in Values : CallDoRequest(p, "Update", "PATCH", "", x, NilDest)
    /\ UNCHANGED buf

Remove(p) ==
    /\ CallDoRequest(p, "Remove", "DELETE", "", NilValue, NilDest)
    /\ UNCHANGED buf

SetRules(p) ==
    /\ \E x \in Values :
          CallDoRequest(p, "SetRules", "PUT", RulesPath, x, NilDest)
    /\ UNCHANGED buf

\* SetRulesJSON decodes b into an interface{} first and returns on failure.
SetRulesJSON(p, bufs) ==
    \E b \in bufs :
       LET r == Decode(b, AnyDest(<<>>))
       IN  /\ buf' = [buf EXCEPT ![p] = b]
           /\ IF r.failed
              THEN /\ pc[p] = "idle"
                   /\ pc'     = [pc EXCEPT ![p] = "done"]
                   /\ op'     = [op EXCEPT ![p] = "SetRulesJSON"]
                   /\ retErr' = [retErr EXCEPT ![p] = UnmarshalErr]
                   /\ UNCHANGED <<method, path, v, d0, d, body, build, sent,
                                  transport, res, closed, decodes, err,
                                  retName, retBytes>>
              ELSE CallDoRequest(p, "SetRulesJSON", "PUT", RulesPath,
                                 [kind |-> "value", marshalable |-> TRUE,
                                  json |-> r.d.val],
                                 NilDest)

\* Variant: the rules are decoded into an interface{} and encoded again.
GetRulesJSONDecoded(p) ==
    /\ CallDoRequest(p, "GetRulesJSON", "GET", RulesPath, NilValue,
                     AnyDest(<<>>))
    /\ UNCHANGED buf

GetRulesJSON(p) ==
    /\ CallDoRequest(p, "GetRulesJSON", "GET", RulesPath, NilValue,
                     RawDest(<<>>))
    /\ UNCHANGED buf

----------------------------------------------------------------------------
(* DoRequest, one action per commented step of the function *)

\* Variant: the body is never closed (the defer is missing).
ReturnWithoutClose(p, e, nClose) ==
    /\ err' = [err EXCEPT ![p] = e]
    /\ pc'  = [pc EXCEPT ![p] = "returned"]
    /\ UNCHANGED closed

\* Variant: err is one variable shared by all invocations.
ReturnSharedErr(p, e, nClose) ==
    /\ err'    = [q \in Procs |-> e]
    /\ closed' = [closed EXCEPT ![p] = @ + nClose]
    /\ pc'     = [pc EXCEPT ![p] = "returned"]

\* DoRequest returns e; the deferred res.Body.Close() runs when a response
\* was obtained (nClose = 1).
ReturnFromDoRequest(p, e, nClose) ==
    /\ err'    = [err EXCEPT ![p] = e]
    /\ closed' = [closed EXCEPT ![p] = @ + nClose]
    /\ pc'     = [pc EXCEPT ![p] = "returned"]

\* Variant: the error of json.Marshal is dropped and the request goes on.
EncodeVIgnoringError(p) ==
    /\ pc[p] = "marshal"
    /\ body' = [body EXCEPT ![p] =
                   IF v[p].kind # "nil" THEN BodyReader(Marshal(v[p]).buf)
                   ELSE @]
    /\ pc'   = [pc EXCEPT ![p] = "build"]
    /\ UNCHANGED <<op, method, path, buf, v, d0, d, build, sent, transport,
                   res, closed, decodes, err, retErr, retName, retBytes>>

\* encode v
EncodeV(p) ==
    /\ pc[p] = "marshal"
    /\ IF v[p].kind # "nil"
       THEN LET m == Marshal(v[p])
            IN  IF m.failed
                THEN /\ ReturnFromDoRequest(p, MarshalErr, 0)
                     /\ UNCHANGED body
                ELSE /\ body' = [body EXCEPT ![p] = BodyReader(m.buf)]
                     /\ pc'   = [pc EXCEPT ![p] = "build"]
                     /\ UNCHANGED <<err, closed>>
       ELSE /\ pc' = [pc EXCEPT ![p] = "build"]
            /\ UNCHANGED <<body, err, closed>>
    /\ UNCHANGED <<op, method, path, buf, v, d0, d, build, sent, transport,
                   res, decodes, retErr, retName, retBytes>>

\* create client and request
CreateClientAndRequest(p) ==
    /\ pc[p] = "build"
    /\ \E ok \in BOOLEAN :
          IF ok
          THEN /\ build' = [build EXCEPT ![p] = "ok"]
               /\ pc'    = [pc EXCEPT ![p] = "do"]
               /\ UNCHANGED <<err, closed>>
          ELSE /\ build' = [build EXCEPT ![p] = "failed"]
               /\ ReturnFromDoRequest(p, BuildErr, 0)
    /\ UNCHANGED <<op, method, path, buf, v, d0, d, body, sent, transport,
                   res, decodes, retErr, retName, retBytes>>

\* Variant: a failed client.Do is tried once more.
DoClientRequestRetry(p, statuses, bodies) ==
    /\ pc[p] = "do"
    /\ sent' = [sent EXCEPT ![p] = @ + 1]
    /\ \/ /\ sent[p] = 0
          /\ UNCHANGED <<pc, transport, res, err, closed>>
       \/ /\ transport' = [transport EXCEPT ![p] = "failed"]
          /\ ReturnFromDoRequest(p, TransportErr, 0)
          /\ UNCHANGED res
       \/ \E st \in statuses, b \in bodies :
             /\ transport' = [transport EXCEPT ![p] = "ok"]
             /\ res'       = [res EXCEPT ![p] = [status |-> st, body |-> b]]
             /\ pc'        = [pc EXCEPT ![p] = "check"]
             /\ UNCHANGED <<err, closed>>
    /\ UNCHANGED <<op, method, path, buf, v, d0, d, body, build, decodes,
                   retErr, retName, retBytes>>

\* do request
DoClientRequest(p, statuses, bodies) ==
    /\ pc[p] = "do"
    /\ sent' = [sent EXCEPT ![p] = @ + 1]
    /\ \/ /\ transport' = [transport EXCEPT ![p] = "failed"]
          /\ ReturnFromDoRequest(p, TransportErr, 0)
          /\ UNCHANGED res
       \/ \E st \in statuses, b \in bodies :
             /\ transport' = [transport EXCEPT ![p] = "ok"]
             /\ res'       = [res EXCEPT ![p] = [status |-> st, body |-> b]]
             /\ pc'        = [pc EXCEPT ![p] = "check"]
             /\ UNCHANGED <<err, closed>>
    /\ UNCHANGED <<op, method, path, buf, v, d0, d, body, build, decodes,
                   retErr, retName, retBytes>>

\* Variant: the result of checkServerError is not returned.
CheckForServerErrorIgnored(p) ==
    /\ pc[p] = "check"
    /\ pc' = [pc EXCEPT ![p] = "decode"]
    /\ UNCHANGED <<op, method, path, buf, v, d0, d, body, build, sent,
                   transport, res, closed, decodes, err, retErr, retName,
                   retBytes>>

\* Variant: the body is decoded into d before the status is looked at.
CheckForServerErrorAfterDecode(p) ==
    /\ pc[p] = "check"
    /\ LET e == checkServerError(res[p])
       IN  IF e # NoErr
           THEN /\ ReturnFromDoRequest(p, e, 1)
                /\ d' = [d EXCEPT ![p] =
                            IF @.kind # "nil" THEN Decode(res[p].body, @).d
                            ELSE @]
           ELSE /\ pc' = [pc EXCEPT ![p] = "decode"]
                /\ UNCHANGED <<err, closed, d>>
    /\ UNCHANGED <<op, method, path, buf, v, d0, body, build, sent,
                   transport, res, decodes, retErr, retName, retBytes>>

\* check for server error
CheckForServerError(p) ==
    /\ pc[p] = "check"
    /\ LET e == checkServerError(res[p])
       IN  IF e # NoErr
           THEN ReturnFromDoRequest(p, e, 1)
           ELSE /\ pc' = [pc EXCEPT ![p] = "decode"]
                /\ UNCHANGED <<err, closed>>
    /\ UNCHANGED <<op, method, path, buf, v, d0, d, body, build, sent,
                   transport, res, decodes, retErr, retName, retBytes>>

\* Variant: the body is decoded whether or not d is nil; json rejects a nil
\* destination with an error.
DecodeBodyToDUnguarded(p) ==
    /\ pc[p] = "decode"
    /\ decodes' = [decodes EXCEPT ![p] = @ + 1]
    /\ IF d[p].kind # "nil"
       THEN LET r == Decode(res[p].body, d[p])
            IN  /\ d' = [d EXCEPT ![p] = r.d]
                /\ ReturnFromDoRequest(
                      p, IF r.failed THEN UnmarshalErr ELSE NoErr, 1)
       ELSE /\ ReturnFromDoRequest(p, UnmarshalErr, 1)
            /\ UNCHANGED d
    /\ UNCHANGED <<op, method, path, buf, v, d0, body, build, sent,
                   transport, res, retErr, retName, retBytes>>

\* decode body to d
DecodeBodyToD(p) ==
    /\ pc[p] = "decode"
    /\ IF d[p].kind # "nil"
       THEN LET r == Decode(res[p].body, d[p])
            IN  /\ decodes' = [decodes EXCEPT ![p] = @ + 1]
                /\ d'       = [d EXCEPT ![p] = r.d]
                /\ ReturnFromDoRequest(
                      p, IF r.failed THEN UnmarshalErr ELSE NoErr, 1)
       ELSE /\ ReturnFromDoRequest(p, NoErr, 1)
            /\ UNCHANGED <<d, decodes>>
    /\ UNCHANGED <<op, method, path, buf, v, d0, body, build, sent,
                   transport, res, retErr, retName, retBytes>>

----------------------------------------------------------------------------
(* What the exported functions do with DoRequest's result *)

\* Get, Set, Update, Remove, SetRules, SetRulesJSON: return DoRequest(...)
ReturnErr(p) ==
    /\ pc[p] = "returned"
    /\ op[p] \in {"Get", "Set", "Update", "Remove", "SetRules", "SetRulesJSON"}
    /\ retErr' = [retErr EXCEPT ![p] = err[p]]
    /\ pc'     = [pc EXCEPT ![p] = "done"]
    /\ UNCHANGED <<op, method, path, buf, v, d0, d, body, build, sent,
                   transport, res, closed, decodes, err, retName, retBytes>>

\* Variant: res.Name is returned even when DoRequest failed.
PushReturnName(p) ==
    /\ pc[p] = "returned"
    /\ op[p] = "Push"
    /\ retName' = [retName EXCEPT ![p] = d[p].val.n]
    /\ retErr'  = [retErr EXCEPT ![p] = err[p]]
    /\ pc' = [pc EXCEPT ![p] = "done"]
    /\ UNCHANGED <<op, method, path, buf, v, d0, d, body, build, sent,
                   transport, res, closed, decodes, err, retBytes>>

PushReturn(p) ==
    /\ pc[p] = "returned"
    /\ op[p] = "Push"
    /\ IF err[p] # NoErr
       THEN /\ retName' = [retName EXCEPT ![p] = ""]
            /\ retErr'  = [retErr EXCEPT ![p] = err[p]]
       ELSE /\ retName' = [retName EXCEPT ![p] = d[p].val.n]
            /\ retErr'  = [retErr EXCEPT ![p] = NoErr]
    /\ pc' = [pc EXCEPT ![p] = "done"]
    /\ UNCHANGED <<op, method, path, buf, v, d0, d, body, build, sent,
                   transport, res, closed, decodes, err, retBytes>>

GetRulesJSONReturn(p) ==
    /\ pc[p] = "returned"
    /\ op[p] = "GetRulesJSON"
    /\ IF err[p] # NoErr
       THEN /\ retBytes' = [retBytes EXCEPT ![p] = <<>>]
            /\ retErr'   = [retErr EXCEPT ![p] = err[p]]
       ELSE /\ retBytes' = [retBytes EXCEPT ![p] = d[p].val]
            /\ retErr'   = [retErr EXCEPT ![p] = NoErr]
    /\ pc' = [pc EXCEPT ![p] = "done"]
    /\ UNCHANGED <<op, method, path, buf, v, d0, d, body, build, sent,
                   transport, res, closed, decodes, err, retName>>

----------------------------------------------------------------------------
(* Specifications *)

\* One invocation, every response and buffer of Bodies.
Next ==
    \E p \in {"p1"} :
       \/ Get(p)
       \/ Set(p)
       \/ Push(p)
       \/ Update(p)
       \/ Remove(p)
       \/ SetRules(p)
       \/ SetRulesJSON(p, Bodies)
       \/ GetRulesJSON(p)
       \/ EncodeV(p)
       \/ CreateClientAndRequest(p)
       \/ DoClientRequest(p, StatusCodes, Bodies)
       \/ CheckForServerError(p)
       \/ DecodeBodyToD(p)
       \/ ReturnErr(p)
       \/ PushReturn(p)
       \/ GetRulesJSONReturn(p)

Spec == Init /\ [][Next]_vars

\* Two invocations whose steps interleave in any order.
NextConc ==
    \E p \in Procs :
       \/ Get(p)
       \/ Set(p)
       \/ Push(p)
       \/ Update(p)
       \/ Remove(p)
       \/ SetRules(p)
       \/ SetRulesJSON(p, ConcBodies)
       \/ GetRulesJSON(p)
       \/ EncodeV(p)
       \/ CreateClientAndRequest(p)
       \/ DoClientRequest(p, ConcStatusCodes, ConcBodies)
       \/ CheckForServerError(p)
       \/ DecodeBodyToD(p)
       \/ ReturnErr(p)
       \/ PushReturn(p)
       \/ GetRulesJSONReturn(p)

SpecConc == Init /\ [][NextConc]_vars

----------------------------------------------------------------------------
(* Vocabulary of the properties *)

\* DoRequest has been called by invocation p / has returned to its caller.
Invoked(p)  == method[p] # ""
Finished(p) == Invoked(p) /\ pc[p] \in {"returned", "done"}

HasResponse(p) == transport[p] = "ok"
Is2xx(st)      == 200 <= st /\ st <= 299

MarshalOK(p) == v[p].kind = "nil" \/ v[p].marshalable

\* t is exactly one JSON value, nothing before or after it.
IsCompleteValue(t) == Len(t) > 0 /\ ScanValue(t, 1) = Len(t) + 1

Spaces(n) == [i \in 1..n |-> " "]

\* b is whitespace, one JSON value, and anything at all after it.
BeginsWithValue(b) ==
    \E i \in 0..Len(b), j \in 1..Len(b) :
       /\ i < j
       /\ SubSeq(b, 1, i) = Spaces(i)
       /\ IsCompleteValue(SubSeq(b, i + 1, j))

\* b is valid JSON: one value with only whitespace around it.
ValidJSON(b) ==
    \E i \in 0..Len(b), j \in 1..Len(b) :
       /\ i < j
       /\ SubSeq(b, 1, i) = Spaces(i)
       /\ IsCompleteValue(SubSeq(b, i + 1, j))
       /\ SubSeq(b, j + 1, Len(b)) = Spaces(Len(b) - j)

NameAbc == <<"{", "n", ":", "s", "}">>

----------------------------------------------------------------------------
(* C1 *)

\* C1: a response whose status is outside 200..299 is never handed to the
\* decoder and leaves d as it was, well-formed body or not, and DoRequest
\* (and so the exported function) returns a non-nil error for it.
StatusGating ==
    \A p \in Procs :
       (HasResponse(p) /\ ~Is2xx(res[p].status)) =>
          /\ decodes[p] = 0
          /\ d[p] = d0[p]
          /\ pc[p] # "decode"
          /\ Finished(p) => err[p] # NoErr
          /\ pc[p] = "done" => retErr[p] # NoErr

StatusGatingWitness ==
    \E p \in Procs :
       /\ pc[p] = "done"
       /\ HasResponse(p)
       /\ res[p].status = 300
       /\ res[p].body = NameAbc
       /\ d0[p].kind = "struct"
       /\ err[p] = ServerErr

----------------------------------------------------------------------------
(* C2 *)

\* C2 as claimed: whenever DoRequest returns an error, d holds what it held
\* before the call.
NeverPartiallyPopulated ==
    \A p \in Procs : (Finished(p) /\ err[p] # NoErr) => d[p] = d0[p]

\* C2 as amended: when DoRequest returns an error d holds what it held
\* before the call, except for an unmarshal failure on a 2xx body that
\* begins with a complete JSON value (a value of the wrong type for d):
\* there the members that fit have been stored.
UntouchedUnlessTypeMismatch ==
    \A p \in Procs :
       (Finished(p) /\ err[p] # NoErr /\ d[p] # d0[p]) =>
          /\ err[p] = UnmarshalErr
          /\ HasResponse(p)
          /\ Is2xx(res[p].status)
          /\ BeginsWithValue(res[p].body)

UntouchedWitness ==
    \E p \in Procs :
       /\ Finished(p)
       /\ err[p] = UnmarshalErr
       /\ res[p].body = <<"{", "n", ":", "s">>
       /\ d0[p] = StructDest([n |-> "old", s |-> "old"])
       /\ d[p] = d0[p]

----------------------------------------------------------------------------
(* C3 *)

\* C3 as claimed: however DoRequest ends (success, transport failure, server
\* failure, decode failure), the response body has been closed exactly once
\* when it returns.
ReleasedExactlyOnce ==
    \A p \in Procs :
       (Finished(p) /\ err[p] \in {NoErr, TransportErr, ServerErr, UnmarshalErr})
          => closed[p] = 1

\* C3 as amended: when client.Do returned a response, its body has been
\* closed exactly once by the time DoRequest returns, and never more than
\* once; when no response was obtained (marshal, request-build or transport
\* failure) there is no body and nothing is closed.
ReleasedOncePerResponse ==
    \A p \in Procs :
       /\ closed[p] <= 1
       /\ closed[p] = 1 => (HasResponse(p) /\ Finished(p))
       /\ Finished(p) => closed[p] = (IF HasResponse(p) THEN 1 ELSE 0)

ReleasedWitness ==
    \E p \in Procs :
       /\ pc[p] = "returned"
       /\ err[p] = ServerErr
       /\ closed[p] = 1

----------------------------------------------------------------------------
(* C4 *)

\* C4: when v is non-nil and json.Marshal rejects it, DoRequest returns the
\* marshal error, and neither r.clientAndRequest nor client.Do is reached.
MarshalFailureStopsEarly ==
    \A p \in Procs :
       (Invoked(p) /\ ~MarshalOK(p)) =>
          /\ build[p] = "pending"
          /\ sent[p] = 0
          /\ transport[p] = "pending"
          /\ pc[p] \in {"marshal", "returned", "done"}
          /\ Finished(p) => err[p] = MarshalErr
          /\ pc[p] = "done" => retErr[p] = MarshalErr

MarshalFailureWitness ==
    \E p \in Procs :
       /\ pc[p] = "done"
       /\ op[p] = "Set"
       /\ v[p] = BadValue
       /\ retErr[p] = MarshalErr

----------------------------------------------------------------------------
(* C5 *)

\* C5: a buf that is not valid JSON makes SetRulesJSON return the unmarshal
\* error without calling DoRequest, so nothing is built or sent.
BadRulesRejectedLocally ==
    \A p \in Procs :
       (op[p] = "SetRulesJSON" /\ ~ValidJSON(buf[p])) =>
          /\ ~Invoked(p)
          /\ build[p] = "pending"
          /\ sent[p] = 0
          /\ pc[p] = "done"
          /\ retErr[p] = UnmarshalErr

----------------------------------------------------------------------------
(* C6 *)

\* C6: Push issues a POST; it returns "" with DoRequest's error when
\* DoRequest fails, whatever was stored in res by then, and the decoded
\* name with a nil error when DoRequest succeeds ("abc" for {"name":"abc"}).
PushIdentifierContract ==
    \A p \in Procs :
       (op[p] = "Push" /\ pc[p] = "done") =>
          /\ method[p] = "POST"
          /\ retErr[p] = err[p]
          /\ retErr[p] # NoErr => retName[p] = ""
          /\ retErr[p] = NoErr =>
                /\ HasResponse(p) /\ Is2xx(res[p].status)
                /\ retName[p] = d[p].val.n
          /\ (MarshalOK(p) /\ build[p] = "ok" /\ HasResponse(p)
                /\ Is2xx(res[p].status) /\ res[p].body = NameAbc)
                => (retName[p] = "abc" /\ retErr[p] = NoErr)
          /\ (HasResponse(p) /\ ~Is2xx(res[p].status))
                => (retName[p] = "" /\ retErr[p] # NoErr)

PushWitness ==
    \E p \in Procs :
       /\ op[p] = "Push"
       /\ pc[p] = "done"
       /\ retErr[p] = UnmarshalErr
       /\ d[p].val.n = "abc"
       /\ retName[p] = ""

----------------------------------------------------------------------------
(* C7 *)

\* What DoRequest returns, and what it leaves in d, from invocation p's own
\* arguments and the outcomes of p's own request.
ExpectedErr(p) ==
    IF ~MarshalOK(p) THEN MarshalErr
    ELSE IF build[p] = "failed" THEN BuildErr
    ELSE IF transport[p] = "failed" THEN TransportErr
    ELSE IF checkServerError(res[p]) # NoErr THEN checkServerError(res[p])
    ELSE IF d0[p].kind # "nil" /\ Decode(res[p].body, d0[p]).failed
         THEN UnmarshalErr
    ELSE NoErr

ExpectedDest(p) ==
    IF /\ MarshalOK(p)
       /\ HasResponse(p)
       /\ checkServerError(res[p]) = NoErr
       /\ d0[p].kind # "nil"
    THEN Decode(res[p].body, d0[p]).d
    ELSE d0[p]

\* C7: with invocations interleaved in any order, against the same
\* reference or not, the error an invocation gets and the value left in its
\* destination are those its own arguments and its own response determine;
\* until it has returned its error is unset.
Independence ==
    \A p \in Procs :
       /\ Finished(p) => (err[p] = ExpectedErr(p) /\ d[p] = ExpectedDest(p))
       /\ ~Finished(p) => err[p] = NoErr
       /\ (Invoked(p) /\ pc[p] = "done") => retErr[p] = ExpectedErr(p)

IndependenceWitness ==
    /\ op["p1"] = "Push" /\ op["p2"] = "Push"
    /\ path["p1"] = path["p2"]
    /\ pc["p1"] = "returned" /\ err["p1"] = NoErr
    /\ d["p1"].val.n = "abc"
    /\ pc["p2"] = "returned" /\ err["p2"] = ServerErr
    /\ res["p2"].status = 404

----------------------------------------------------------------------------
(* C8 *)

\* C8 as claimed: when GetRulesJSON succeeds it returns the response body
\* byte for byte.
RawBodyReturnedVerbatim ==
    \A p \in Procs :
       (op[p] = "GetRulesJSON" /\ pc[p] = "done" /\ retErr[p] = NoErr)
          => retBytes[p] = res[p].body

\* C8 as amended: GetRulesJSON issues a GET against /.settings/rules; on a
\* 2xx response whose body begins, after optional whitespace, with a
\* complete JSON value it returns the bytes of that first value unaltered,
\* without the whitespace before it and without whatever follows it (the
\* whole body when the body is nothing but that value); on any failure,
\* a 2xx body that does not begin with a JSON value included, it returns
\* nil and the error.
FirstValueReturnedVerbatim ==
    \A p \in Procs :
       (op[p] = "GetRulesJSON" /\ pc[p] = "done") =>
          /\ method[p] = "GET"
          /\ path[p] = RulesPath
          /\ retErr[p] = err[p]
          /\ retErr[p] # NoErr => retBytes[p] = <<>>
          /\ retErr[p] = NoErr =>
                /\ HasResponse(p) /\ Is2xx(res[p].status)
                /\ IsCompleteValue(retBytes[p])
                /\ \E i \in 0..Len(res[p].body) :
                      /\ SubSeq(res[p].body, 1, i) = Spaces(i)
                      /\ SubSeq(res[p].body, i + 1, i + Len(retBytes[p]))
                            = retBytes[p]
          /\ (HasResponse(p) /\ Is2xx(res[p].status)
                /\ IsCompleteValue(res[p].body))
                => (retErr[p] = NoErr /\ retBytes[p] = res[p].body)
          /\ (HasResponse(p) /\ Is2xx(res[p].status))
                => (retErr[p] = NoErr <=> BeginsWithValue(res[p].body))

FirstValueWitness ==
    \E p \in Procs :
       /\ op[p] = "GetRulesJSON"
       /\ pc[p] = "done"
       /\ retErr[p] = NoErr
       /\ res[p].body = <<" ", "{", " ", "n", " ", ":", " ", "s", " ", "}", " ">>
       /\ retBytes[p] = <<"{", " ", "n", " ", ":", " ", "s", " ", "}">>

----------------------------------------------------------------------------
(* C9 *)

\* C9: client.Do is called at most once per DoRequest, and exactly once when
\* marshalling and request building succeeded; a transport failure, a
\* non-2xx status or a decode failure is returned as it is, nothing re-sent.
NoRetry ==
    \A p \in Procs :
       /\ sent[p] <= 1
       /\ Finished(p) => (sent[p] = 1 <=> (MarshalOK(p) /\ build[p] = "ok"))
       /\ (Finished(p) /\ transport[p] = "failed") => err[p] = TransportErr
       /\ (Finished(p) /\ sent[p] = 0) => err[p] \in {MarshalErr, BuildErr}
       /\ (Finished(p) /\ HasResponse(p)) =>
             err[p] \in {NoErr, ServerErr, UnmarshalErr}

NoRetryWitness ==
    \E p \in Procs :
       /\ pc[p] = "done"
       /\ transport[p] = "failed"
       /\ sent[p] = 1
       /\ retErr[p] = TransportErr

----------------------------------------------------------------------------
(* C10 *)

NoDestOps == {"Set", "Update", "Remove", "SetRules", "SetRulesJSON"}

MethodOf(o) ==
    CASE o \in {"Set", "SetRules", "SetRulesJSON"} -> "PUT"
      [] o = "Update" -> "PATCH"
      [] o = "Remove" -> "DELETE"

\* C10: Set (PUT), Update (PATCH), Remove (DELETE), SetRules and
\* SetRulesJSON pass no destination, the response body is then never
\* decoded, and a 2xx response gives a nil error whatever its body holds;
\* DoRequest returns the unmarshal error only to Get, Push and GetRulesJSON.
DecodeOnlyWithDestination ==
    \A p \in Procs :
       /\ (Invoked(p) /\ op[p] \in NoDestOps) =>
             /\ d0[p] = NilDest
             /\ method[p] = MethodOf(op[p])
             /\ decodes[p] = 0
             /\ (Finished(p) /\ HasResponse(p) /\ Is2xx(res[p].status))
                   => err[p] = NoErr
             /\ (pc[p] = "done" /\ HasResponse(p) /\ Is2xx(res[p].status))
                   => retErr[p] = NoErr
       /\ err[p] = UnmarshalErr =>
             (d0[p].kind # "nil" /\ op[p] \in {"Get", "Push", "GetRulesJSON"})

DecodeOnlyWitness ==
    \E p \in Procs :
       /\ op[p] = "Set"
       /\ pc[p] = "done"
       /\ HasResponse(p)
       /\ res[p].status = 200
       /\ res[p].body = <<"{", "n", ":", "}">>
       /\ retErr[p] = NoErr

====
